---- MODULE Spec2Model ----
(***************************************************************************)
(* zenfin.stats: portfolio statistics over return series.                  *)
(*                                                                         *)
(* The library is a set of pure functions.  A client is modelled as a      *)
(* process that repeatedly calls one function on inputs of its choice and  *)
(* then returns: `call` names the function being evaluated ("idle" between *)
(* calls), the other variables hold its arguments and its result.          *)
(*                                                                         *)
(* Numbers.  A return is an exact rational [n, d].  A float the library    *)
(* computes is an extended real [k, r, m]: "nan" (missing), "inf" with the *)
(* sign of r, or "num" with value r * sqrt(m), r rational and m a          *)
(* square-free positive integer, which is closed under the products,      *)
(* quotients and square roots the statistics take.  Division follows       *)
(* numpy: x/0 is +-inf, 0/0 is nan, and nothing raises.                    *)
(*                                                                         *)
(* A result is a pair <<type, value>>: "float", "int", "series" (one value *)
(* per timestamp), "frame" (named series) or "raise".                      *)
(***************************************************************************)
EXTENDS Integers, Sequences, FiniteSets, TLC

VARIABLES
  call,        \* the function being evaluated, "idle" between calls
  returns,     \* its return series (one column)
  flags,       \* its boolean series (count_consecutive)
  benchmark,   \* its benchmark series
  source,      \* the series `returns` was aggregated from, if any
  twin,        \* a second input and its result, for comparing two calls
  groups,      \* aggregate: the period key of each observation
  compounded,
  rf,
  periods,
  window,
  annualize,
  confidence,
  result       \* <<type, value>>

vars == <<call, returns, flags, benchmark, source, twin, groups, compounded,
          rf, periods, window, annualize, confidence, result>>

-----------------------------------------------------------------------------
(* Bounds of the model.                                                    *)

\* longest return series of the single-series functions
MaxLen == 4
\* longest series of the two-series (asset, benchmark) functions
MaxPairLen == 3
\* largest number of periods per year
MaxPeriods == 2

-----------------------------------------------------------------------------
(* Exact rational arithmetic.                                              *)

Abs(x) == IF x < 0 THEN -x ELSE x

Sign(x) == IF x < 0 THEN -1 ELSE IF x = 0 THEN 0 ELSE 1

RECURSIVE GCD(_, _)
GCD(a, b) == IF b = 0 THEN a ELSE GCD(b, a % b)

Rat(n, d) ==
  LET g == GCD(Abs(n), Abs(d))
      s == IF d < 0 THEN -1 ELSE 1
  IN  [n |-> s * (n \div g), d |-> s * (d \div g)]

Zero == Rat(0, 1)
One == Rat(1, 1)

RAdd(a, b) == Rat(a.n * b.d + b.n * a.d, a.d * b.d)
RNeg(a) == [n |-> -a.n, d |-> a.d]
RSub(a, b) == RAdd(a, RNeg(b))
RMul(a, b) == Rat(a.n * b.n, a.d * b.d)
\* b # 0
RDiv(a, b) == Rat(a.n * b.d, a.d * b.n)
RAbs(a) == [n |-> Abs(a.n), d |-> a.d]
RLt(a, b) == a.n * b.d < b.n * a.d
RLe(a, b) == a.n * b.d <= b.n * a.d
RInt(k) == Rat(k, 1)

RECURSIVE RPow(_, _)
RPow(a, k) == IF k = 0 THEN One ELSE RMul(a, RPow(a, k - 1))

RECURSIVE RSum(_)
RSum(s) == IF Len(s) = 0 THEN Zero ELSE RAdd(Head(s), RSum(Tail(s)))

RECURSIVE RProd(_)
RProd(s) == IF Len(s) = 0 THEN One ELSE RMul(Head(s), RProd(Tail(s)))

RMaxOf(S) == CHOOSE x \in S : \A y \in S : RLe(y, x)
RMinOf(S) == CHOOSE x \in S : \A y \in S : RLe(x, y)

IMaxOf(S) == CHOOSE x \in S : \A y \in S : y <= x

Range(s) == {s[i] : i \in DOMAIN s}

Prefix(s, k) == SubSeq(s, 1, k)

Mean(s) == RDiv(RSum(s), RInt(Len(s)))

-----------------------------------------------------------------------------
(* Extended reals: the floats of numpy and pandas, computed exactly.       *)

NaN == [k |-> "nan", r |-> Zero, m |-> 1]
Inf(sign) == [k |-> "inf", r |-> RInt(sign), m |-> 1]

\* the largest k, from k0 upwards, whose square divides n
RECURSIVE SquarePart(_, _)
SquarePart(n, k0) ==
  IF k0 * k0 > n THEN 1
  ELSE IF n % (k0 * k0) = 0 THEN k0 * SquarePart(n \div (k0 * k0), k0)
  ELSE SquarePart(n, k0 + 1)

\* r * sqrt(m), m a natural number
VNum(r, m) ==
  IF r.n = 0 \/ m = 0 THEN [k |-> "num", r |-> Zero, m |-> 1]
  ELSE LET sq == SquarePart(m, 2)
       IN  [k |-> "num", r |-> RMul(r, RInt(sq)), m |-> m \div (sq * sq)]

VRat(r) == VNum(r, 1)
VInt(i) == VNum(RInt(i), 1)

IsNaN(v) == v.k = "nan"
IsInf(v) == v.k = "inf"
IsNum(v) == v.k = "num"
IsZero(v) == v.k = "num" /\ v.r.n = 0
VSign(v) == Sign(v.r.n)

\* np.sqrt of a rational: nan below zero
VSqrt(r) ==
  IF r.n < 0 THEN NaN
  ELSE IF r.n = 0 THEN [k |-> "num", r |-> Zero, m |-> 1]
  ELSE LET sn == SquarePart(r.n, 2)
           sd == SquarePart(r.d, 2)
           n1 == r.n \div (sn * sn)
           d1 == r.d \div (sd * sd)
       IN  VNum(Rat(sn, sd * d1), n1 * d1)

VAbs(v) == [v EXCEPT !.r = RAbs(v.r)]

VMul(a, b) ==
  IF IsNaN(a) \/ IsNaN(b) THEN NaN
  ELSE IF IsInf(a) \/ IsInf(b)
       THEN IF IsZero(a) \/ IsZero(b) THEN NaN ELSE Inf(VSign(a) * VSign(b))
  ELSE VNum(RMul(a.r, b.r), a.m * b.m)

\* float division: x/0 is inf with the sign of x, 0/0 and inf/inf are nan
VDiv(a, b) ==
  IF IsNaN(a) \/ IsNaN(b) THEN NaN
  ELSE IF IsInf(b) THEN (IF IsInf(a) THEN NaN ELSE VRat(Zero))
  ELSE IF IsZero(b) THEN (IF IsZero(a) THEN NaN ELSE Inf(VSign(a)))
  ELSE IF IsInf(a) THEN Inf(VSign(a) * VSign(b))
  ELSE VNum(RDiv(a.r, RMul(b.r, RInt(b.m))), a.m * b.m)

\* a - b for finite values over the same radical
VSub(a, b) ==
  IF IsNaN(a) \/ IsNaN(b) THEN NaN
  ELSE IF IsZero(b) THEN a
  ELSE IF IsZero(a) THEN [b EXCEPT !.r = RNeg(b.r)]
  ELSE VNum(RSub(a.r, b.r), a.m)

\* sample variance (ddof = 1) of a window: nan for one observation
Var(s) ==
  IF Len(s) < 2 THEN NaN
  ELSE LET mu == Mean(s)
           sq == [i \in DOMAIN s |-> RMul(RSub(s[i], mu), RSub(s[i], mu))]
       IN  VRat(RDiv(RSum(sq), RInt(Len(s) - 1)))

\* Series.std(ddof=1)
Std(s) == LET v == Var(s) IN IF IsNaN(v) THEN NaN ELSE VSqrt(v.r)

\* sample covariance (ddof = 1) of two aligned windows
Cov(x, y) ==
  IF Len(x) < 2 THEN NaN
  ELSE LET mx == Mean(x)
           my == Mean(y)
           pr == [i \in DOMAIN x |-> RMul(RSub(x[i], mx), RSub(y[i], my))]
       IN  VRat(RDiv(RSum(pr), RInt(Len(x) - 1)))

\* Pearson correlation: cov / (std_x * std_y), nan on a zero variance
Corr(x, y) == VDiv(Cov(x, y), VMul(Std(x), Std(y)))

-----------------------------------------------------------------------------
(* Results.                                                                *)

NoResult == <<"none">>
Float(v) == <<"float", v>>
IntResult(i) == <<"int", i>>
SeriesResult(s) == <<"series", s>>
Frame(f) == <<"frame", f>>
Raise(e) == <<"raise", e>>

Value == result[2]

-----------------------------------------------------------------------------
(* Inputs.                                                                 *)

\* returns per period: -100%, -50%, 0, +50%, +100%
RetVals == {Rat(-1, 1), Rat(-1, 2), Zero, Rat(1, 2), One}

SeriesOfLen(n) == [1..n -> RetVals]

Series == UNION {SeriesOfLen(n) : n \in 1..MaxLen}

BoolSeries == UNION {[1..n -> BOOLEAN] : n \in 1..MaxLen}

\* a yearly grouping key per observation: years are chronological
IsChronological(g) == \A i \in 1..(Len(g) - 1) : g[i] <= g[i + 1]

YearKeys(n) == {g \in [1..n -> 1..3] : IsChronological(g) /\ g[1] = 1}

\* aggregate=None
NoGroups == <<>>

\* periods per year a caller may pass: valid ones, 0 and -1
PeriodsArgs == -1..MaxPeriods

ValidPeriods == 1..MaxPeriods

\* rolling windows a caller may pass: valid ones, 0 and -1
WindowArgs == -1..MaxLen

\* confidence levels, inside and outside the open interval (0, 1)
Confidences == {Rat(-1, 2), Zero, Rat(1, 2), Rat(19, 20), One, Rat(3, 2)}

\* an asset column and a benchmark column over the same timestamps
BenchVals == {Rat(-1, 2), Zero, Rat(1, 2)}
PairLens == 1..MaxPairLen
AssetSeries(n) == [1..n -> RetVals]
BenchSeries(n) == [1..n -> BenchVals]

\* the inputs of two calls that are compared
TwinVals == {Zero, Rat(1, 2)}
TwinSeries(n) == [1..n -> TwinVals]

\* risk-free rates per period, and the annual rates that compound to them
PeriodicRates == {Zero, Rat(1, 2)}
AnnualRates(p) == {RSub(RPow(RAdd(One, q), p), One) : q \in PeriodicRates}

-----------------------------------------------------------------------------
(* utils: the helpers stats.py calls.                                      *)

\* utils.group_returns: one value per group, groups in first-seen order
GroupKeys(g) == {g[i] : i \in DOMAIN g}

GroupMembers(s, g, key) ==
  LET F[i \in 0..Len(s)] ==
        IF i = 0 THEN <<>>
        ELSE IF g[i] = key THEN Append(F[i - 1], s[i]) ELSE F[i - 1]
  IN  F[Len(s)]

OnePlus(s) == [i \in DOMAIN s |-> RAdd(One, s[i])]

group_returns(s, g, comp) ==
  LET keys == GroupKeys(g)
      \* chronological keys: first-seen order is increasing order
      Ordered[k \in 0..Cardinality(keys)] ==
        IF k = 0 THEN <<>>
        ELSE LET done == Range(Ordered[k - 1])
                 next == CHOOSE x \in keys \ done : \A y \in keys \ done : x <= y
             IN  Append(Ordered[k - 1], next)
      order == Ordered[Cardinality(keys)]
  IN  [j \in DOMAIN order |->
         LET m == GroupMembers(s, g, order[j])
         IN  IF comp THEN RSub(RProd(OnePlus(m)), One) ELSE RSum(m)]

aggregate_returns(s, g, comp) ==
  IF g = NoGroups THEN s ELSE group_returns(s, g, comp)

\* CumulativeCurve: running product of (1 + return), minus 1
CumulativeCurve(s) ==
  [t \in DOMAIN s |-> RSub(RProd(OnePlus(Prefix(s, t))), One)]

\* running peak: the maximum of the curve up to and including t
RunningPeak(curve, t) == RMaxOf({curve[i] : i \in 1..t})

FuturePeak(curve, t) == RMaxOf({curve[i] : i \in DOMAIN curve})

DrawdownAt(curve, t) ==
  LET peak == RunningPeak(curve, t)
  IN  IF RLe(peak, Zero) THEN Zero ELSE RSub(RDiv(curve[t], peak), One)

LookAheadDrawdownAt(curve, t) ==
  LET peak == FuturePeak(curve, t)
  IN  IF RLe(peak, Zero) THEN Zero ELSE RSub(RDiv(curve[t], peak), One)

to_drawdown_series_lookahead(s) ==
  LET curve == CumulativeCurve(s)
  IN  [t \in DOMAIN s |-> LookAheadDrawdownAt(curve, t)]

to_drawdown_series(s) ==
  LET curve == CumulativeCurve(s)
  IN  [t \in DOMAIN s |-> DrawdownAt(curve, t)]

\* running length of the current run of TRUE, 0 where the value is FALSE
count_consecutive(b) ==
  LET C[t \in 0..Len(b)] ==
        IF t = 0 THEN 0
        ELSE IF b[t] THEN C[t - 1] + 1 ELSE 0
  IN  [t \in DOMAIN b |-> C[t]]

-----------------------------------------------------------------------------
(* stats.py: drawdown and streak statistics.                               *)

IsWin(r) == RLt(Zero, r)
IsWinOrFlat(r) == RLe(Zero, r)
IsLoss(r) == RLt(r, Zero)

Wins(s) == [i \in DOMAIN s |-> IsWin(s[i])]
Losses(s) == [i \in DOMAIN s |-> IsLoss(s[i])]
InDrawdown(s) == LET dd == to_drawdown_series(s)
                 IN  [i \in DOMAIN s |-> RLt(dd[i], Zero)]

consecutive_wins_ge(s, g, comp) ==
  LET a == aggregate_returns(s, g, comp)
  IN  IMaxOf(Range(count_consecutive([i \in DOMAIN a |-> IsWinOrFlat(a[i])])))

consecutive_wins(s, g, comp) ==
  IMaxOf(Range(count_consecutive(Wins(aggregate_returns(s, g, comp)))))

consecutive_losses(s, g, comp) ==
  IMaxOf(Range(count_consecutive(Losses(aggregate_returns(s, g, comp)))))

max_drawdown(s) == RMinOf(Range(to_drawdown_series(s)))

longest_drawdown_days(s) == IMaxOf(Range(count_consecutive(InDrawdown(s))))

\* the mean of the running counts over all timestamps
avg_drawdown_days(s) ==
  LET c == count_consecutive(InDrawdown(s))
  IN  RDiv(RSum([i \in DOMAIN c |-> RInt(c[i])]), RInt(Len(c)))

-----------------------------------------------------------------------------
(* stats.py: returns and growth.                                           *)

total_return_summed(s) == RSum(s)

total_return(s) == RSub(RProd(OnePlus(s)), One)

\* min(x^k, cap + 1)
RECURSIVE PowCapped(_, _, _)
PowCapped(x, k, cap) ==
  IF k = 0 THEN 1
  ELSE LET h == PowCapped(x, k - 1, cap)
       IN  IF h > cap \/ h * x > cap THEN cap + 1 ELSE h * x

\* the x >= x0 with x^k = n, or 0 when n is no k-th power
RECURSIVE IRootFrom(_, _, _)
IRootFrom(n, k, x0) ==
  LET pw == PowCapped(x0, k, n)
  IN  IF pw = n THEN x0 ELSE IF pw > n THEN 0 ELSE IRootFrom(n, k, x0 + 1)

IsPower(n, k) == n = 1 \/ IRootFrom(n, k, 2) # 0
IRoot(n, k) == IF n = 1 THEN 1 ELSE IRootFrom(n, k, 2)

RECURSIVE Log2(_)
Log2(n) == IF n < 2 THEN 0 ELSE 1 + Log2(n \div 2)

\* base^(en/ed) - 1 for a rational base > 0 and ed > 0, in closed form:
\* [growth, b, e, f] is b^(e/f) - 1 with b no perfect power, e/f > 0 in
\* lowest terms, so that equal values have equal closed forms
Growth(base, en, ed) ==
  IF base = One \/ en = 0
  THEN [k |-> "growth", base |-> One, en |-> 1, ed |-> 1]
  ELSE LET big == IF base.n > base.d THEN base.n ELSE base.d
           j == IMaxOf({i \in 1..(Log2(big) + 1) :
                          IsPower(base.n, i) /\ IsPower(base.d, i)})
           b0 == Rat(IRoot(base.n, j), IRoot(base.d, j))
           g == GCD(Abs(en) * j, ed)
       IN  [k |-> "growth",
            base |-> IF en > 0 THEN b0 ELSE Rat(b0.d, b0.n),
            en |-> (Abs(en) * j) \div g,
            ed |-> ed \div g]

\* a rational x >= -1 as the growth x = (1 + x)^1 - 1
GrowthOfRat(x) ==
  IF x = RNeg(One) THEN [k |-> "growth", base |-> Zero, en |-> 1, ed |-> 1]
  ELSE Growth(RAdd(One, x), 1, 1)

IsGrowth(v) == v.k = "growth"
\* the sign of b^(e/f) - 1, e/f > 0
GrowthSign(v) == IF v.base = One THEN 0 ELSE IF RLt(One, v.base) THEN 1 ELSE -1

\* abs(total + 1.0) ** (1.0 / years) - 1 in numpy floats, years = num / p
GrowthOver(base, num, p) ==
  IF p = 0
  THEN \* years is inf, or nan for num = 0: the exponent is 0, or nan
       IF num = 0 /\ base # One THEN NaN ELSE GrowthOfRat(Zero)
  ELSE IF num = 0
  THEN \* years is +0.0 or -0.0: the exponent is +inf or -inf
       IF base = One THEN GrowthOfRat(Zero)
       ELSE IF RLt(One, base) = (p > 0) THEN Inf(1)
       ELSE GrowthOfRat(RNeg(One))
  ELSE IF base = Zero
  THEN IF p > 0 THEN GrowthOfRat(RNeg(One)) ELSE Inf(1)
  ELSE Growth(base, p, num)

cagr_full_years(s, comp, p) ==
  LET total == IF comp THEN total_return(s) ELSE RSum(s)
  IN  GrowthOver(RAbs(RAdd(total, One)), Len(s), p)

cagr(s, comp, p) ==
  LET total == IF comp THEN total_return(s) ELSE RSum(s)
  IN  GrowthOver(RAbs(RAdd(total, One)), Len(s) - 1, p)

-----------------------------------------------------------------------------
(* utils.to_excess_returns and the risk-adjusted ratios of stats.py.       *)

\* the periodic rate of an annual rate: (1 + rf)^(1/p) - 1
Deannualize(annual, p) ==
  LET up == RAdd(One, annual)
  IN  RSub(Rat(IRoot(up.n, p), IRoot(up.d, p)), One)

to_excess_returns(s, annual, p) ==
  LET q == Deannualize(annual, p) IN [i \in DOMAIN s |-> RSub(s[i], q)]

Negatives(s) == SelectSeq(s, IsLoss)
Positives(s) == SelectSeq(s, IsWin)
Squares(s) == [i \in DOMAIN s |-> RMul(s[i], s[i])]

Annualized(v, p, ann) == IF ann THEN VMul(v, VSqrt(RInt(p))) ELSE v

\* smart=False
sharpe(s, annual, p, ann) ==
  LET excess == to_excess_returns(s, annual, p)
      divisor == Std(excess)
  IN  Annualized(VDiv(VRat(Mean(excess)), divisor), p, ann)

\* smart=False
sortino(s, annual, p, ann) ==
  LET excess == to_excess_returns(s, annual, p)
      downside == VSqrt(RDiv(RSum(Squares(Negatives(excess))),
                             RInt(Len(excess))))
  IN  Annualized(VDiv(VRat(Mean(excess)), downside), p, ann)

omega(s, required, p) ==
  LET less == to_excess_returns(s, required, p)
      numer == RSum(Positives(less))
      denom == RSum(Negatives(less))
  IN  VDiv(VRat(numer), VAbs(VRat(denom)))

\* periods=252, the default of cagr
DefaultPeriods == 252

\* cagr / abs(max_dd): the closed form [quot, num, den] unless max_dd is 0
calmar(s) ==
  LET cagr_ratio == cagr(s, TRUE, DefaultPeriods)
      max_dd == max_drawdown(s)
  IN  IF ~IsGrowth(cagr_ratio) THEN VDiv(cagr_ratio, VAbs(VRat(max_dd)))
      ELSE IF max_dd = Zero
           THEN VDiv(VInt(GrowthSign(cagr_ratio)), VRat(Zero))
      ELSE [k |-> "quot", num |-> cagr_ratio, den |-> RAbs(max_dd)]

recovery_factor(s) ==
  VDiv(VRat(total_return(s)), VAbs(VRat(max_drawdown(s))))

RECURSIVE VPow(_, _)
VPow(v, x) == IF x = 0 THEN VInt(1) ELSE VMul(v, VPow(v, x - 1))

\* the sum of a sequence of values r * sqrt(m) over at most one radical
\* m # 1, as [nan, rat, rad]: rat + rad
RECURSIVE VSum(_)
VSum(vs) ==
  IF Len(vs) = 0 THEN [nan |-> FALSE, rat |-> Zero, rad |-> VInt(0)]
  ELSE LET h == Head(vs)
           t == VSum(Tail(vs))
       IN  IF IsNaN(h) \/ t.nan
           THEN [nan |-> TRUE, rat |-> Zero, rad |-> VInt(0)]
           ELSE IF h.m = 1 THEN [t EXCEPT !.rat = RAdd(t.rat, h.r)]
           ELSE [t EXCEPT !.rad = VNum(RAdd(t.rad.r, h.r), h.m)]

AllButLast(s) == SubSeq(s, 1, Len(s) - 1)
AllButFirst(s) == SubSeq(s, 2, Len(s))

\* one column; sqrt(a + b * sqrt(m)) is the closed form [nested, a, b, m]
autocorr_penalty(s) ==
  LET num == Len(s)
      coef == VAbs(Corr(AllButLast(s), AllButFirst(s)))
      corr == [x \in 1..(num - 1) |->
                 VMul(VRat(Rat(num - x, num)), VPow(coef, x))]
      sum == VSum(corr)
      a == RAdd(One, RMul(RInt(2), sum.rat))
  IN  IF sum.nan THEN NaN
      ELSE IF IsZero(sum.rad) THEN VSqrt(a)
      ELSE [k |-> "nested", a |-> a, b |-> RMul(RInt(2), sum.rad.r),
            m |-> sum.rad.m]

-----------------------------------------------------------------------------
(* stats.py: volatility, value at risk, the rolling statistics and the     *)
(* benchmark statistics.                                                   *)

volatility(s, p, ann) == Annualized(Std(s), p, ann)

\* the W observations ending at t
WindowAt(s, t, W) == SubSeq(s, t - W + 1, t)

\* pandas rolling(W): missing until W observations are available
HasWindow(t, W) == W >= 1 /\ t >= W

RollingStd(s, W) ==
  [t \in DOMAIN s |-> IF HasWindow(t, W) THEN Std(WindowAt(s, t, W)) ELSE NaN]

RollingMean(s, W) ==
  [t \in DOMAIN s |->
     IF HasWindow(t, W) THEN VRat(Mean(WindowAt(s, t, W))) ELSE NaN]

\* pandas rejects a window below 0: "window must be an integer 0 or greater"
rolling_volatility(s, W, ppy) ==
  IF W < 0 THEN Raise("ValueError")
  ELSE LET std == RollingStd(s, W)
       IN  SeriesResult([t \in DOMAIN s |-> VMul(std[t], VSqrt(RInt(ppy)))])

RMean(w) == VRat(Mean(w))

rolling_sharpe(s, annual, W, ann, ppy) ==
  LET excess == to_excess_returns(s, annual, ppy)
      mean == RollingMean(excess, W)
      std == RollingStd(s, W)
  IN  SeriesResult([t \in DOMAIN s |->
                      Annualized(VDiv(mean[t], std[t]), ppy, ann)])

SumSquaredNegatives(w) == VRat(RSum(Squares(Negatives(w))))

RollingSumSquaredNegatives(s, W) ==
  [t \in DOMAIN s |->
     IF HasWindow(t, W) THEN SumSquaredNegatives(WindowAt(s, t, W)) ELSE NaN]

\* np.sqrt of a float
VRoot(v) == IF IsNum(v) /\ v.m = 1 THEN VSqrt(v.r) ELSE v

rolling_sortino(s, annual, W, ann, ppy) ==
  LET excess == to_excess_returns(s, annual, ppy)
      sums == RollingSumSquaredNegatives(excess, W)
      downside == [t \in DOMAIN s |-> VDiv(sums[t], VInt(W))]
      mean == RollingMean(excess, W)
  IN  SeriesResult([t \in DOMAIN s |->
                      Annualized(VDiv(mean[t], VRoot(downside[t])), ppy, ann)])

\* scipy norm.ppf(q, loc, scale): nan outside its domain, and else the
\* closed form [ppf, q, loc, scale]
NormPpf(q, loc, scale) ==
  IF IsNaN(scale) \/ VSign(scale) <= 0 THEN NaN
  ELSE IF RLt(q, Zero) \/ RLt(One, q) THEN NaN
  ELSE IF q = Zero THEN Inf(-1)
  ELSE IF q = One THEN Inf(1)
  ELSE IF q = Rat(1, 2) THEN VRat(loc)
  ELSE [k |-> "ppf", q |-> q, loc |-> loc, scale |-> scale]

\* one column
value_at_risk(s, conf) == NormPpf(RSub(One, conf), Mean(s), Std(s))

\* one asset column: cov(asset, benchmark) / var(benchmark)
beta(s, b) == VDiv(Cov(s, b), Var(b))

alpha(s, b, p) ==
  VMul(VSub(RMean(s), VMul(beta(s, b), RMean(b))), VInt(p))

FillNa(v) == IF IsNaN(v) THEN VInt(0) ELSE v

\* one asset column; `periods` is the window
rolling_greeks(s, b, W) ==
  LET CorrAt(t) == Corr(WindowAt(s, t, W), WindowAt(b, t, W))
      corr == [t \in DOMAIN s |-> IF HasWindow(t, W) THEN CorrAt(t) ELSE NaN]
      std == RollingStd(s, W)
      stdb == RollingStd(b, W)
      rbeta == [t \in DOMAIN s |-> VDiv(VMul(corr[t], std[t]), stdb[t])]
      ralpha == [t \in DOMAIN s |->
                   VSub(RMean(s), VMul(rbeta[t], RMean(b)))]
  IN  Frame([beta |-> [t \in DOMAIN s |-> FillNa(rbeta[t])],
             alpha |-> [t \in DOMAIN s |-> FillNa(ralpha[t])]])

-----
(* The client: one call at a time, on arguments of its choice.             *)

NoSeries == <<>>
NoTwin == <<>>

Init ==
  /\ call = "idle"
  /\ returns = NoSeries
  /\ flags = NoSeries
  /\ benchmark = NoSeries
  /\ source = NoSeries
  /\ twin = NoTwin
  /\ groups = NoGroups
  /\ compounded = TRUE
  /\ rf = Zero
  /\ periods = 1
  /\ window = 1
  /\ annualize = TRUE
  /\ confidence = Zero
  /\ result = NoResult

\* the call returns to the client, which drops the arguments and the result
Return ==
  /\ call # "idle"
  /\ call' = "idle"
  /\ returns' = NoSeries
  /\ flags' = NoSeries
  /\ benchmark' = NoSeries
  /\ source' = NoSeries
  /\ twin' = NoTwin
  /\ groups' = NoGroups
  /\ compounded' = TRUE
  /\ rf' = Zero
  /\ periods' = 1
  /\ window' = 1
  /\ annualize' = TRUE
  /\ confidence' = Zero
  /\ result' = NoResult

\* the aggregate and compounded arguments of a calendar-aggregate metric
ChooseAggregate(s) ==
  \/ /\ groups' = NoGroups
     /\ compounded' = TRUE
  \/ /\ groups' \in YearKeys(Len(s))
     /\ compounded' \in BOOLEAN

CallToDrawdownSeries ==
  /\ call = "idle"
  /\ call' = "to_drawdown_series"
  /\ \E s \in Series :
       /\ returns' = s
       /\ result' = SeriesResult(to_drawdown_series(s))
  /\ UNCHANGED <<flags, benchmark, source, twin, groups, compounded, rf,
                 periods, window, annualize, confidence>>

CallMaxDrawdown ==
  /\ call = "idle"
  /\ call' = "max_drawdown"
  /\ \E s \in Series :
       /\ returns' = s
       /\ result' = Float(VRat(max_drawdown(s)))
  /\ UNCHANGED <<flags, benchmark, source, twin, groups, compounded, rf,
                 periods, window, annualize, confidence>>

CallCountConsecutive ==
  /\ call = "idle"
  /\ call' = "count_consecutive"
  /\ \E b \in BoolSeries :
       /\ flags' = b
       /\ result' = SeriesResult(count_consecutive(b))
  /\ UNCHANGED <<returns, benchmark, source, twin, groups, compounded, rf,
                 periods, window, annualize, confidence>>

CallConsecutiveWins ==
  /\ call = "idle"
  /\ call' = "consecutive_wins"
  /\ \E s \in Series :
       /\ returns' = s
       /\ ChooseAggregate(s)
       /\ result' = IntResult(consecutive_wins(s, groups', compounded'))
  /\ UNCHANGED <<flags, benchmark, source, twin, rf, periods, window,
                 annualize, confidence>>

CallConsecutiveLosses ==
  /\ call = "idle"
  /\ call' = "consecutive_losses"
  /\ \E s \in Series :
       /\ returns' = s
       /\ ChooseAggregate(s)
       /\ result' = IntResult(consecutive_losses(s, groups', compounded'))
  /\ UNCHANGED <<flags, benchmark, source, twin, rf, periods, window,
                 annualize, confidence>>

CallLongestDrawdownDays ==
  /\ call = "idle"
  /\ call' = "longest_drawdown_days"
  /\ \E s \in Series :
       /\ returns' = s
       /\ result' = IntResult(longest_drawdown_days(s))
  /\ UNCHANGED <<flags, benchmark, source, twin, groups, compounded, rf,
                 periods, window, annualize, confidence>>

CallAvgDrawdownDays ==
  /\ call = "idle"
  /\ call' = "avg_drawdown_days"
  /\ \E s \in Series :
       /\ returns' = s
       /\ result' = Float(VRat(avg_drawdown_days(s)))
  /\ UNCHANGED <<flags, benchmark, source, twin, groups, compounded, rf,
                 periods, window, annualize, confidence>>

NextDrawdown ==
  \/ CallToDrawdownSeries
  \/ CallMaxDrawdown
  \/ CallCountConsecutive
  \/ CallConsecutiveWins
  \/ CallConsecutiveLosses
  \/ CallLongestDrawdownDays
  \/ CallAvgDrawdownDays
  \/ Return

SpecDrawdown == Init /\ [][NextDrawdown]_vars

\* utils.aggregate_returns, called by the client itself
CallAggregateReturns ==
  /\ call = "idle"
  /\ call' = "aggregate_returns"
  /\ \E s \in Series :
       /\ returns' = s
       /\ ChooseAggregate(s)
       /\ result' = SeriesResult(aggregate_returns(s, groups', compounded'))
  /\ UNCHANGED <<flags, benchmark, source, twin, rf, periods, window,
                 annualize, confidence>>

CallTotalReturn ==
  /\ call = "idle"
  /\ call' = "total_return"
  /\ \E s \in Series :
       /\ returns' = s
       /\ result' = Float(VRat(total_return(s)))
  /\ UNCHANGED <<flags, benchmark, source, twin, groups, compounded, rf,
                 periods, window, annualize, confidence>>

\* total_return of the series aggregate_returns just returned; `source`
\* keeps the series it was aggregated from
CallTotalReturnOfAggregate ==
  /\ call = "aggregate_returns"
  /\ call' = "total_return"
  /\ source' = returns
  /\ returns' = Value
  /\ result' = Float(VRat(total_return(Value)))
  /\ UNCHANGED <<flags, benchmark, twin, groups, compounded, rf, periods,
                 window, annualize, confidence>>

NextAggregate ==
  \/ CallAggregateReturns
  \/ CallTotalReturn
  \/ CallTotalReturnOfAggregate
  \/ Return

SpecAggregate == Init /\ [][NextAggregate]_vars

CallCagr ==
  /\ call = "idle"
  /\ call' = "cagr"
  /\ \E s \in Series, c \in BOOLEAN, p \in PeriodsArgs :
       /\ returns' = s
       /\ compounded' = c
       /\ periods' = p
       /\ result' = Float(cagr(s, c, p))
  /\ UNCHANGED <<flags, benchmark, source, twin, groups, rf, window,
                 annualize, confidence>>

NextGrowth == CallCagr \/ CallTotalReturn \/ Return

SpecGrowth == Init /\ [][NextGrowth]_vars

CallSharpe ==
  /\ call = "idle"
  /\ call' = "sharpe"
  /\ \E s \in Series, p \in ValidPeriods, ann \in BOOLEAN :
       \E annual \in AnnualRates(p) :
         /\ returns' = s
         /\ rf' = annual
         /\ periods' = p
         /\ annualize' = ann
         /\ result' = Float(sharpe(s, annual, p, ann))
  /\ UNCHANGED <<flags, benchmark, source, twin, groups, compounded, window,
                 confidence>>

CallSortino ==
  /\ call = "idle"
  /\ call' = "sortino"
  /\ \E s \in Series, p \in ValidPeriods, ann \in BOOLEAN :
       \E annual \in AnnualRates(p) :
         /\ returns' = s
         /\ rf' = annual
         /\ periods' = p
         /\ annualize' = ann
         /\ result' = Float(sortino(s, annual, p, ann))
  /\ UNCHANGED <<flags, benchmark, source, twin, groups, compounded, window,
                 confidence>>

CallOmega ==
  /\ call = "idle"
  /\ call' = "omega"
  /\ \E s \in Series, p \in ValidPeriods :
       \E required \in AnnualRates(p) :
         /\ returns' = s
         /\ rf' = required
         /\ periods' = p
         /\ result' = Float(omega(s, required, p))
  /\ UNCHANGED <<flags, benchmark, source, twin, groups, compounded, window,
                 annualize, confidence>>

CallCalmar ==
  /\ call = "idle"
  /\ call' = "calmar"
  /\ \E s \in Series :
       /\ returns' = s
       /\ result' = Float(calmar(s))
  /\ UNCHANGED <<flags, benchmark, source, twin, groups, compounded, rf,
                 periods, window, annualize, confidence>>

CallRecoveryFactor ==
  /\ call = "idle"
  /\ call' = "recovery_factor"
  /\ \E s \in Series :
       /\ returns' = s
       /\ result' = Float(recovery_factor(s))
  /\ UNCHANGED <<flags, benchmark, source, twin, groups, compounded, rf,
                 periods, window, annualize, confidence>>

CallAutocorrPenalty ==
  /\ call = "idle"
  /\ call' = "autocorr_penalty"
  /\ \E s \in Series :
       /\ returns' = s
       /\ result' = Float(autocorr_penalty(s))
  /\ UNCHANGED <<flags, benchmark, source, twin, groups, compounded, rf,
                 periods, window, annualize, confidence>>

NextRatio ==
  \/ CallSharpe
  \/ CallSortino
  \/ CallOmega
  \/ CallCalmar
  \/ CallRecoveryFactor
  \/ CallAutocorrPenalty
  \/ Return

SpecRatio == Init /\ [][NextRatio]_vars

CallValueAtRisk ==
  /\ call = "idle"
  /\ call' = "value_at_risk"
  /\ \E s \in Series, c \in Confidences :
       /\ returns' = s
       /\ confidence' = c
       /\ result' = Float(value_at_risk(s, c))
  /\ UNCHANGED <<flags, benchmark, source, twin, groups, compounded, rf,
                 periods, window, annualize>>

CallRollingVolatility ==
  /\ call = "idle"
  /\ call' = "rolling_volatility"
  /\ \E s \in Series, W \in WindowArgs, p \in PeriodsArgs :
       /\ returns' = s
       /\ window' = W
       /\ periods' = p
       /\ result' = rolling_volatility(s, W, p)
  /\ UNCHANGED <<flags, benchmark, source, twin, groups, compounded, rf,
                 annualize, confidence>>

NextParams == CallCagr \/ CallValueAtRisk \/ CallRollingVolatility \/ Return

SpecParams == Init /\ [][NextParams]_vars

CallRollingSharpe ==
  /\ call = "idle"
  /\ call' = "rolling_sharpe"
  /\ \E s \in Series, p \in ValidPeriods, ann \in BOOLEAN :
       \E annual \in AnnualRates(p), W \in 1..Len(s) :
         /\ returns' = s
         /\ rf' = annual
         /\ periods' = p
         /\ window' = W
         /\ annualize' = ann
         /\ result' = rolling_sharpe(s, annual, W, ann, p)
  /\ UNCHANGED <<flags, benchmark, source, twin, groups, compounded,
                 confidence>>

CallRollingSortino ==
  /\ call = "idle"
  /\ call' = "rolling_sortino"
  /\ \E s \in Series, p \in ValidPeriods, ann \in BOOLEAN :
       \E annual \in AnnualRates(p), W \in 1..Len(s) :
         /\ returns' = s
         /\ rf' = annual
         /\ periods' = p
         /\ window' = W
         /\ annualize' = ann
         /\ result' = rolling_sortino(s, annual, W, ann, p)
  /\ UNCHANGED <<flags, benchmark, source, twin, groups, compounded,
                 confidence>>

CallRollingGreeks ==
  /\ call = "idle"
  /\ call' = "rolling_greeks"
  /\ \E n \in PairLens :
       \E s \in AssetSeries(n), b \in BenchSeries(n), W \in 1..n :
         /\ returns' = s
         /\ benchmark' = b
         /\ window' = W
         /\ result' = rolling_greeks(s, b, W)
  /\ UNCHANGED <<flags, source, twin, groups, compounded, rf, periods,
                 annualize, confidence>>

AgreeOn(x, y, t, W) == WindowAt(x, t, W) = WindowAt(y, t, W)

\* two calls with the same window, on inputs that agree on the window
\* ending at t: `twin` keeps the second input, its result and t
CallRollingGreeksTwice ==
  /\ call = "idle"
  /\ call' = "rolling_greeks"
  /\ \E n \in PairLens :
       \E s \in TwinSeries(n), b \in TwinSeries(n), W \in 1..n :
         \E s2 \in TwinSeries(n), b2 \in TwinSeries(n), t \in W..n :
           /\ AgreeOn(s, s2, t, W)
           /\ AgreeOn(b, b2, t, W)
           /\ returns' = s
           /\ benchmark' = b
           /\ window' = W
           /\ result' = rolling_greeks(s, b, W)
           /\ twin' = <<s2, b2, rolling_greeks(s2, b2, W), t>>
  /\ UNCHANGED <<flags, source, groups, compounded, rf, periods, annualize,
                 confidence>>

NextRolling ==
  \/ CallRollingVolatility
  \/ CallRollingSharpe
  \/ CallRollingSortino
  \/ CallRollingGreeks
  \/ CallRollingGreeksTwice
  \/ Return

SpecRolling == Init /\ [][NextRolling]_vars

-----
(* C1: every value of to_drawdown_series(returns) is <= 0, the value at    *)
(* the first observation is 0, and the value is 0 at every later timestamp *)
(* at which the cumulative curve sets a new running peak (the maximum of   *)
(* the curve up to and including that timestamp).                          *)

SetsNewPeak(curve, t) == \A i \in 1..(t - 1) : RLt(curve[i], curve[t])

C1_DrawdownNonPositive ==
  call = "to_drawdown_series" =>
    LET curve == CumulativeCurve(returns)
    IN  /\ \A t \in DOMAIN Value : RLe(Value[t], Zero)
        /\ Value[1] = Zero
        /\ \A t \in 2..Len(Value) : SetsNewPeak(curve, t) => Value[t] = Zero

\* a drawdown, a recovery and then a new running peak
C1_Witness ==
  /\ call = "to_drawdown_series"
  /\ Len(returns) = 4
  /\ RLt(Value[2], Zero)
  /\ RLt(Value[3], Zero)
  /\ SetsNewPeak(CumulativeCurve(returns), 4)
  /\ Value[4] = Zero

-----------------------------------------------------------------------------
(* Runs of a boolean series, defined without count_consecutive.            *)

AllTrue(b, i, j) == \A k \in i..j : b[k]

\* the length of the run of TRUE ending at t, 0 when b[t] is FALSE
RunEndingAt(b, t) ==
  IF ~b[t] THEN 0 ELSE IMaxOf({k \in 1..t : AllTrue(b, t - k + 1, t)})

\* the maximal contiguous runs of TRUE, as <<first, last>>
MaximalRuns(b) ==
  {r \in (DOMAIN b) \X (DOMAIN b) :
     /\ r[1] <= r[2]
     /\ AllTrue(b, r[1], r[2])
     /\ (r[1] = 1 \/ ~b[r[1] - 1])
     /\ (r[2] = Len(b) \/ ~b[r[2] + 1])}

RunLen(r) == r[2] - r[1] + 1

LongestRun(b) == IMaxOf({0} \cup {RunLen(r) : r \in MaximalRuns(b)})

RECURSIVE SumRunLens(_)
SumRunLens(R) ==
  IF R = {} THEN 0
  ELSE LET r == CHOOSE x \in R : TRUE IN RunLen(r) + SumRunLens(R \ {r})

MeanRunLen(b) == Rat(SumRunLens(MaximalRuns(b)), Cardinality(MaximalRuns(b)))

IsAlternating(b) == \A i \in 1..(Len(b) - 1) : b[i] # b[i + 1]

-----------------------------------------------------------------------------
(* C2: count_consecutive returns, per timestamp, the length of the current *)
(* run of true values ending there and 0 where the value is false; its     *)
(* maximum over an all-true series of length n is n and over a strictly    *)
(* alternating series is 1; consecutive_wins, consecutive_losses and       *)
(* longest_drawdown_days equal the length of the longest maximal run of    *)
(* their condition (return > 0, return < 0, drawdown < 0).                 *)

C2_ConsecutiveRuns ==
  /\ call = "count_consecutive" =>
        /\ \A t \in DOMAIN flags : Value[t] = RunEndingAt(flags, t)
        /\ AllTrue(flags, 1, Len(flags)) =>
              IMaxOf(Range(Value)) = Len(flags)
        /\ (IsAlternating(flags) /\ Len(flags) >= 2) =>
              IMaxOf(Range(Value)) = 1
  /\ call = "consecutive_wins" =>
        Value = LongestRun(Wins(aggregate_returns(returns, groups, compounded)))
  /\ call = "consecutive_losses" =>
        Value = LongestRun(Losses(aggregate_returns(returns, groups, compounded)))
  /\ call = "longest_drawdown_days" =>
        Value = LongestRun(InDrawdown(returns))

\* three yearly returns, the longest winning streak two years long
C2_Witness ==
  /\ call = "consecutive_wins"
  /\ groups # NoGroups
  /\ Len(aggregate_returns(returns, groups, compounded)) = 3
  /\ \E i \in DOMAIN returns : returns[i] = Zero
  /\ Value = 2

-----------------------------------------------------------------------------
(* C9: avg_drawdown_days(returns) equals the mean length of the maximal    *)
(* contiguous runs of timestamps with drawdown < 0, for every series that  *)
(* has at least one such run.                                              *)

C9_AvgDrawdownDaysIsMeanRunLength ==
  (call = "avg_drawdown_days" /\ MaximalRuns(InDrawdown(returns)) # {}) =>
    Value = VRat(MeanRunLen(InDrawdown(returns)))

-----------------------------------------------------------------------------
(* C4: for every daily return series and every partition of it into yearly *)
(* groups, aggregating with compounded=true and then taking total_return   *)
(* of the aggregated series equals total_return of the daily series.       *)

OfYearlyAggregate ==
  call = "total_return" /\ source # NoSeries /\ groups # NoGroups

C4_YearlyRoundTrip ==
  (OfYearlyAggregate /\ compounded) => Value = VRat(total_return(source))

\* three years, one of them with two days, and a total return that is not 0
C4_Witness ==
  /\ OfYearlyAggregate
  /\ compounded
  /\ Len(returns) = 3
  /\ Len(source) = 4
  /\ \A i \in DOMAIN source : source[i] # Zero /\ source[i] # RNeg(One)

-----------------------------------------------------------------------------
(* C5: for every constant return series (each of the n periods equal to c) *)
(* and compounded=true, cagr(returns) equals c.                            *)

IsConstant(s) == \A i \in DOMAIN s : s[i] = s[1]

OfConstantSeries ==
  call = "cagr" /\ compounded /\ periods >= 1 /\ IsConstant(returns)

C5_CagrOfConstantIsConstant ==
  OfConstantSeries => Value = GrowthOfRat(returns[1])

\* C5 as amended: for a constant series of n >= 2 periods equal to c, with
\* compounded=true and periods >= 1, cagr(returns) is
\* abs(1+c)^(n*periods/(n-1)) - 1; for every n it equals c only when c is
\* 0 or -1.
C5_CagrOfConstantSeries ==
  OfConstantSeries =>
    LET c == returns[1]
        n == Len(returns)
        grown == RAbs(RPow(RAdd(One, c), n))
    IN  /\ (Value = GrowthOfRat(c)) <=> (c = Zero \/ c = RNeg(One))
        /\ (n >= 2 /\ c # RNeg(One)) => Value = Growth(grown, periods, n - 1)

\* three periods of +50% at one period per year: (27/8)^(1/2) - 1
C5_Witness ==
  /\ OfConstantSeries
  /\ Len(returns) = 3
  /\ returns[1] = Rat(1, 2)
  /\ periods = 1
  /\ Value = [k |-> "growth", base |-> Rat(3, 2), en |-> 3, ed |-> 2]

-----------------------------------------------------------------------------
(* C6: autocorr_penalty on a column with fewer than 2 observations reports *)
(* a missing (not-a-number) result; it never returns 0 or 1 and never      *)
(* raises.                                                                 *)

C6_AutocorrPenaltyMissingBelowTwo ==
  (call = "autocorr_penalty" /\ Len(returns) < 2) => result = Float(NaN)

-----------------------------------------------------------------------------
(* C7: whenever the denominator of a ratio metric is exactly zero (sharpe  *)
(* with zero standard deviation of excess returns, sortino and omega with  *)
(* no negative excess return, calmar and recovery_factor with max drawdown *)
(* 0), the function returns the missing value: it neither raises nor       *)
(* returns positive or negative infinity.                                  *)

Excess == to_excess_returns(returns, rf, periods)

ZeroDenominator ==
  \/ call = "sharpe" /\ IsZero(Std(Excess))
  \/ call \in {"sortino", "omega"} /\ Negatives(Excess) = <<>>
  \/ call \in {"calmar", "recovery_factor"} /\ max_drawdown(returns) = Zero

C7_ZeroDenominatorIsMissing == ZeroDenominator => result = Float(NaN)

-----------------------------------------------------------------------------
(* C3: every rolling statistic called with window W (rolling_volatility,   *)
(* rolling_sharpe, rolling_sortino, rolling_greeks) produces exactly W-1   *)
(* missing leading values, and its value at index W-1 equals the           *)
(* non-rolling statistic (volatility, sharpe, sortino, beta/alpha) over    *)
(* exactly the first W observations, with the same rf, periods and         *)
(* annualize settings.                                                     *)

ValidRolling == window \in 1..Len(returns) /\ periods >= 1

LeadingMissing(series) == \A t \in 1..(window - 1) : IsNaN(series[t])

First(s) == Prefix(s, window)

C3_Volatility ==
  (call = "rolling_volatility" /\ ValidRolling) =>
    /\ LeadingMissing(Value)
    /\ Value[window] = volatility(First(returns), periods, TRUE)

C3_Sharpe ==
  (call = "rolling_sharpe" /\ ValidRolling) =>
    /\ LeadingMissing(Value)
    /\ Value[window] = sharpe(First(returns), rf, periods, annualize)

C3_Sortino ==
  (call = "rolling_sortino" /\ ValidRolling) =>
    /\ LeadingMissing(Value)
    /\ Value[window] = sortino(First(returns), rf, periods, annualize)

C3_Greeks ==
  (call = "rolling_greeks" /\ ValidRolling) =>
    /\ LeadingMissing(Value.beta)
    /\ LeadingMissing(Value.alpha)
    /\ Value.beta[window] = beta(First(returns), First(benchmark))
    /\ Value.alpha[window] = alpha(First(returns), First(benchmark), window)

C3_RollingMatchesStatistic ==
  C3_Volatility /\ C3_Sharpe /\ C3_Sortino /\ C3_Greeks

-----------------------------------------------------------------------------
(* C8: a call with an invalid parameter is rejected explicitly at call     *)
(* time and produces no result: a confidence outside the open interval     *)
(* (0,1) for value_at_risk, a non-positive window or periods for           *)
(* rolling_volatility and cagr; the parameter is never silently clamped or *)
(* used.                                                                   *)

InvalidParameter ==
  \/ call = "cagr" /\ periods <= 0
  \/ call = "value_at_risk" /\
       ~(RLt(Zero, confidence) /\ RLt(confidence, One))
  \/ call = "rolling_volatility" /\ (window <= 0 \/ periods <= 0)

C8_InvalidParameterRejected == InvalidParameter => result[1] = "raise"

-----------------------------------------------------------------------------
(* C10: for rolling_greeks with window W, the beta and the alpha reported  *)
(* at timestamp t are computed from exactly the W asset and benchmark      *)
(* observations ending at t: two inputs that agree on that window give the *)
(* same beta and alpha at t, whatever their other observations.            *)

C10_GreeksDependOnWindowOnly ==
  (call = "rolling_greeks" /\ twin # NoTwin) =>
    LET t == twin[4]
        second == twin[3][2]
    IN  /\ Value.beta[t] = second.beta[t]
        /\ Value.alpha[t] = second.alpha[t]

\* the beta alone depends on the window only
C10_BetaDependsOnWindowOnly ==
  (call = "rolling_greeks" /\ twin # NoTwin) =>
    Value.beta[twin[4]] = twin[3][2].beta[twin[4]]

====
